---- MODULE Spec2Model ----
(***************************************************************************)
(* Model of the Cataloog BP add-on: the catalogue dispatch handler of      *)
(* index.js and the TMDB client (response cache, identifier resolver,      *)
(* record formatter, catalogue fetch operations).                          *)
(*                                                                         *)
(* One step of the model is one run-to-completion turn of the Node.js      *)
(* event loop: the synchronous part of a handler invocation, or the        *)
(* callback of one upstream response together with every continuation it   *)
(* makes runnable.                                                         *)
(***************************************************************************)
EXTENDS Integers, Sequences, FiniteSets, TLC

---------------------------------------------------------------------------
(* Bounds of the model                                                     *)

\* number of times the clock advances
MaxTicks == 3
\* longest skip string of the pagination sweep
MaxSkipLen == 3
\* longest date string and longest genre id list of the formatter sweep
MaxDateLen == 5
MaxGenres == 3

---------------------------------------------------------------------------
(* Program constants                                                       *)

\* Date.now() is in milliseconds
CACHE_TTL == 30 * 60 * 1000
\* granularity of the model's clock: ten minutes
TickMs == 10 * 60 * 1000
\* items per page assumed by the handler
PageSize == 20

\* JavaScript null / undefined
NULL == "null"

\* JavaScript truthiness of a string-or-null value
Truthy(v) == v # NULL /\ v # ""

\* a || null
OrNull(v) == IF Truthy(v) THEN v ELSE NULL

---------------------------------------------------------------------------
(* The catalogue registry and the client operations it calls              *)

Entry(t, m, a) == [type |-> t, method |-> m, arg |-> a]

CATALOGS ==
    [k \in {"kdrama", "korean-romance", "korean-movies", "jdrama",
            "japanese-movies", "asian-drama", "chinese-movies",
            "thriller-movies", "thriller-series", "crime-movies",
            "crime-series", "classic-movies", "classic-series", "miniseries",
            "romance-movies", "drama-movies", "drama-series", "top-movies",
            "top-series", "netflix-movies", "netflix-series", "prime-movies",
            "prime-series", "disney-movies", "disney-series", "canal-movies",
            "canal-series"} |->
        CASE k = "kdrama"          -> Entry("series", "getKDramas", "")
          [] k = "korean-romance"  -> Entry("series", "getKoreanRomance", "")
          [] k = "korean-movies"   -> Entry("movie", "getMoviesByCountry", "KR")
          [] k = "jdrama"          -> Entry("series", "getJDrama", "")
          [] k = "japanese-movies" -> Entry("movie", "getMoviesByCountry", "JP")
          [] k = "asian-drama"     -> Entry("series", "getAsianDrama", "")
          [] k = "chinese-movies"  -> Entry("movie", "getChineseMovies", "")
          [] k = "thriller-movies" -> Entry("movie", "getMoviesByGenre", "53")
          [] k = "thriller-series" -> Entry("series", "getSeriesByGenre", "80")
          [] k = "crime-movies"    -> Entry("movie", "getCrimeMovies", "")
          [] k = "crime-series"    -> Entry("series", "getCrimeSeries", "")
          [] k = "classic-movies"  -> Entry("movie", "getClassicMovies", "")
          [] k = "classic-series"  -> Entry("series", "getClassicSeries", "")
          [] k = "miniseries"      -> Entry("series", "getMiniSeries", "")
          [] k = "romance-movies"  -> Entry("movie", "getMoviesByGenre", "10749")
          [] k = "drama-movies"    -> Entry("movie", "getMoviesByGenre", "18")
          [] k = "drama-series"    -> Entry("series", "getSeriesByGenre", "18")
          [] k = "top-movies"      -> Entry("movie", "getTopRatedMovies", "")
          [] k = "top-series"      -> Entry("series", "getTopRatedSeries", "")
          [] k = "netflix-movies"  -> Entry("movie", "getMoviesByProvider", "8")
          [] k = "netflix-series"  -> Entry("series", "getSeriesByProvider", "8")
          [] k = "prime-movies"    -> Entry("movie", "getMoviesByProvider", "119")
          [] k = "prime-series"    -> Entry("series", "getSeriesByProvider", "119")
          [] k = "disney-movies"   -> Entry("movie", "getMoviesByProvider", "337")
          [] k = "disney-series"   -> Entry("series", "getSeriesByProvider", "337")
          [] k = "canal-movies"    -> Entry("movie", "getMoviesByProvider", "381")
          [] k = "canal-series"    -> Entry("series", "getSeriesByProvider", "381")]

\* the property names every JavaScript object literal inherits: CATALOGS[name]
\* is truthy for them although the registry has no such entry
ObjectPrototypeKeys ==
    {"constructor", "toString", "valueOf", "hasOwnProperty", "__proto__"}

Op(p, e, f) == [prefix |-> p, endpoint |-> e, format |-> f]

\* cache key prefix, listing endpoint and record formatter of each operation
Operations ==
    [m \in {"getKDramas", "getKoreanRomance", "getMoviesByCountry", "getJDrama",
            "getAsianDrama", "getChineseMovies", "getMoviesByGenre",
            "getSeriesByGenre", "getCrimeMovies", "getCrimeSeries",
            "getClassicMovies", "getClassicSeries", "getMiniSeries",
            "getTopRatedMovies", "getTopRatedSeries", "getMoviesByProvider",
            "getSeriesByProvider"} |->
        CASE m = "getKDramas"          -> Op("kdramas", "/discover/tv", "series")
          [] m = "getKoreanRomance"    -> Op("korean_romance", "/discover/tv", "series")
          [] m = "getMoviesByCountry"  -> Op("movies_country", "/discover/movie", "movie")
          [] m = "getJDrama"           -> Op("jdrama", "/discover/tv", "series")
          [] m = "getAsianDrama"       -> Op("asian_drama", "/discover/tv", "series")
          [] m = "getChineseMovies"    -> Op("chinese_movies", "/discover/movie", "movie")
          [] m = "getMoviesByGenre"    -> Op("movies_genre", "/discover/movie", "movie")
          [] m = "getSeriesByGenre"    -> Op("series_genre", "/discover/tv", "series")
          [] m = "getCrimeMovies"      -> Op("crime_movies", "/discover/movie", "movie")
          [] m = "getCrimeSeries"      -> Op("crime_series", "/discover/tv", "series")
          [] m = "getClassicMovies"    -> Op("classic_movies", "/discover/movie", "movie")
          [] m = "getClassicSeries"    -> Op("classic_series", "/discover/tv", "series")
          [] m = "getMiniSeries"       -> Op("miniseries", "/discover/tv", "series")
          [] m = "getTopRatedMovies"   -> Op("top_rated_movies", "/movie/top_rated", "movie")
          [] m = "getTopRatedSeries"   -> Op("top_rated_series", "/tv/top_rated", "series")
          [] m = "getMoviesByProvider" -> Op("movies_provider", "/discover/movie", "movie")
          [] m = "getSeriesByProvider" -> Op("series_provider", "/discover/tv", "series")]

\* the string part of the cache key of an operation: prefix, then the filter
\* argument (and the default region of the provider operations); the page
\* number is the second component of the key
KeyName(method, arg) ==
    LET p == Operations[method].prefix IN
    CASE method \in {"getMoviesByProvider", "getSeriesByProvider"}
            -> p \o "_" \o arg \o "_FR"
      [] arg # "" -> p \o "_" \o arg
      [] OTHER -> p

CacheKey(method, arg, page) == <<KeyName(method, arg), page>>

---------------------------------------------------------------------------
(* The dispatch handler's pure parts: id lookup and pagination             *)

\* a catalogue id of a request is a sequence of string segments (its text is
\* their concatenation); the manifest prefix is always a segment of its own
Prefix == "cataloog-bp-"

RECURSIVE Concat(_)
Concat(segs) == IF segs = <<>> THEN "" ELSE Head(segs) \o Concat(Tail(segs))

\* id.replace('cataloog-bp-', ''): removes the FIRST occurrence of the prefix,
\* wherever it is in the string
RECURSIVE ReplaceFirst(_)
ReplaceFirst(segs) ==
    IF segs = <<>> THEN <<>>
    ELSE IF Head(segs) = Prefix THEN Tail(segs)
    ELSE <<Head(segs)>> \o ReplaceFirst(Tail(segs))

CatalogId(id) == Concat(ReplaceFirst(id))

\* CATALOGS[catalogId]: a registry entry, an inherited property of the object
\* literal (truthy, but without a fetch function), or undefined
Lookup(catalogId) ==
    IF catalogId \in DOMAIN CATALOGS THEN "entry"
    ELSE IF catalogId \in ObjectPrototypeKeys THEN "inherited"
    ELSE "undefined"

\* a skip value is the sequence of the characters of String(extra?.skip);
\* an absent cursor is the text of undefined
Absent == <<"u", "n", "d", "e", "f", "i", "n", "e", "d">>

IsSpace(ch) == ch \in {" ", "\t", "\n"}

DigitVal(ch) ==
    CASE ch = "0" -> 0 [] ch = "1" -> 1 [] ch = "2" -> 2 [] ch = "3" -> 3
      [] ch = "4" -> 4 [] ch = "5" -> 5 [] ch = "6" -> 6 [] ch = "7" -> 7
      [] ch = "8" -> 8 [] ch = "9" -> 9
      [] ch \in {"a", "A"} -> 10 [] ch \in {"b", "B"} -> 11
      [] ch \in {"c", "C"} -> 12 [] ch \in {"d", "D"} -> 13
      [] ch \in {"e", "E"} -> 14 [] ch \in {"f", "F"} -> 15
      [] OTHER -> 99

RECURSIVE TrimLeft(_)
TrimLeft(s) ==
    IF s # <<>> /\ IsSpace(Head(s)) THEN TrimLeft(Tail(s)) ELSE s

\* the longest prefix of s made of digits of the radix, as a number; nan when
\* that prefix is empty
RECURSIVE ParseDigits(_, _, _, _)
ParseDigits(s, radix, acc, seen) ==
    IF s # <<>> /\ DigitVal(Head(s)) < radix
    THEN ParseDigits(Tail(s), radix, acc * radix + DigitVal(Head(s)), TRUE)
    ELSE [nan |-> ~seen, val |-> acc]

\* parseInt(string) without a radix argument: leading white space, an optional
\* sign, an optional 0x prefix (radix 16), then digits
ParseInt(str) ==
    LET t == TrimLeft(str)
        neg == t # <<>> /\ Head(t) = "-"
        u == IF t # <<>> /\ Head(t) \in {"-", "+"} THEN Tail(t) ELSE t
        hex == Len(u) >= 2 /\ u[1] = "0" /\ u[2] \in {"x", "X"}
        r == IF hex THEN ParseDigits(Tail(Tail(u)), 16, 0, FALSE)
             ELSE ParseDigits(u, 10, 0, FALSE)
    IN  [nan |-> r.nan, val |-> IF neg THEN 0 - r.val ELSE r.val]

\* parseInt(extra?.skip) || 0
SkipOf(str) ==
    LET p == ParseInt(str) IN IF p.nan \/ p.val = 0 THEN 0 ELSE p.val

\* a zero-based page number
PageOf_ZeroBased(str) == SkipOf(str) \div PageSize

\* Math.floor(skip / 20) + 1
PageOf(str) == (SkipOf(str) \div PageSize) + 1

---------------------------------------------------------------------------
(* The promise the handler returns to the add-on SDK                       *)

NoResponse == [state |-> "pending", value |-> [metas |-> <<>>]]
Resolved(v) == [state |-> "resolved", value |-> v]
Rejected(msg) == [state |-> "rejected", value |-> [error |-> msg]]

---------------------------------------------------------------------------
(* Upstream data and the record formatter                                  *)

\* the handler invocations that can be in flight at once
CallIds == {1, 2}

\* the lengths of the pages the upstream returns
PageLens == {0, 1, 2}

\* an optional value (undefined, or a value): the empty sequence or <<v>>
None == << >>
Some(v) == <<v>>

\* a raw upstream record.  id 0 stands for a record without an upstream id.
\* title, original_title and release_date are the fields of a movie; they
\* stand for name, original_name and first_air_date in a series record.  A
\* date is the sequence of its characters, a rating is in tenths.
Raw(n, title, date, genres) ==
    [id |-> n, title |-> title, original_title |-> "Original",
     overview |-> "Overview", release_date |-> date, genre_ids |-> genres,
     vote_average |-> Some(75)]

Date1989 == <<"1", "9", "8", "9", "-", "1", "2", "-", "3", "1">>
Date2021 == <<"2", "0", "2", "1", "-", "0", "5", "-", "0", "1">>

\* the record the upstream lists under the id n
RawRecord(n) ==
    CASE n = 1 -> Raw(1, "One", Some(Date1989), Some(<<53, 9999>>))
      [] n = 2 -> Raw(2, "Two", Some(<<"1", "9", "8">>), Some(<<18, 18>>))
      [] n = 3 -> Raw(3, "Three", Some(Date2021), Some(<<80>>))
      [] OTHER -> Raw(n, "Other", None, None)

\* the upstream ids of the records of a page: none (0), that of a record with
\* an external id (1) and that of a record without one (2)
RecordIds == {0, 1, 2}

RawRecords == {RawRecord(n) : n \in RecordIds}

\* the pages the upstream can answer a listing request with
Pages == UNION {[1..n -> RawRecords] : n \in PageLens}

\* the external id the upstream knows for a record of a kind
ImdbOf(kind, n) ==
    (IF kind = "movie" THEN "ttm" ELSE "tts")
        \o (IF n = 1 THEN "1" ELSE IF n = 2 THEN "2" ELSE IF n = 3 THEN "3" ELSE "9")

\* the upstream has an external id for every record but record 2
Resolvable(n) == n # 2

\* the imdb_id field of a successful external_ids answer: the external id;
\* for a record without one an empty string, or no field at all
ImdbAnswers(kind, n) ==
    IF Resolvable(n) THEN {ImdbOf(kind, n)} ELSE {"", NULL}

\* an identifier cache keyed by the upstream id alone
ImdbKey_Shared(kind, n) == <<"id_", n>>

\* the key of the identifier cache: `movie_${tmdbId}` / `series_${tmdbId}`
ImdbKey(kind, n) == <<kind \o "_", n>>

METAHUB_URL == "https://images.metahub.space"

\* the static genre table
GENRE_MAP ==
    [g \in {28, 12, 16, 35, 80, 99, 18, 10751, 14, 36, 27, 10402, 9648, 10749,
            878, 10770, 53, 10752, 37, 10759, 10762, 10763, 10764, 10765,
            10766, 10767, 10768} |->
        CASE g = 28 -> "Action"         [] g = 12 -> "Adventure"
          [] g = 16 -> "Animation"      [] g = 35 -> "Comedy"
          [] g = 80 -> "Crime"          [] g = 99 -> "Documentary"
          [] g = 18 -> "Drama"          [] g = 10751 -> "Family"
          [] g = 14 -> "Fantasy"        [] g = 36 -> "History"
          [] g = 27 -> "Horror"         [] g = 10402 -> "Music"
          [] g = 9648 -> "Mystery"      [] g = 10749 -> "Romance"
          [] g = 878 -> "Sci-Fi"        [] g = 10770 -> "TV Movie"
          [] g = 53 -> "Thriller"       [] g = 10752 -> "War"
          [] g = 37 -> "Western"        [] g = 10759 -> "Action & Adventure"
          [] g = 10762 -> "Kids"        [] g = 10763 -> "News"
          [] g = 10764 -> "Reality"     [] g = 10765 -> "Sci-Fi & Fantasy"
          [] g = 10766 -> "Soap"        [] g = 10767 -> "Talk"
          [] g = 10768 -> "War & Politics"]

\* GENRE_MAP[id]: a name, or undefined
GenreLookup(id) == IF id \in DOMAIN GENRE_MAP THEN GENRE_MAP[id] ELSE NULL

\* a mapping that keeps the ids it does not know, as "Unknown"
GenreNames_KeepUnmapped(genre_ids) ==
    IF genre_ids = None THEN << >>
    ELSE [i \in 1..Len(genre_ids[1]) |->
            IF Truthy(GenreLookup(genre_ids[1][i]))
            THEN GenreLookup(genre_ids[1][i]) ELSE "Unknown"]

\* (genre_ids || []).map(id => GENRE_MAP[id]).filter(Boolean)
GenreNames(genre_ids) ==
    IF genre_ids = None THEN << >>
    ELSE SelectSeq([i \in 1..Len(genre_ids[1]) |-> GenreLookup(genre_ids[1][i])],
                   Truthy)

\* date?.substring(0, 4): undefined for an absent date, else the characters
\* of the date up to the fourth
YearOf(date) ==
    IF date = None THEN None
    ELSE Some(SubSeq(date[1], 1, IF Len(date[1]) < 4 THEN Len(date[1]) ELSE 4))

\* vote_average?.toFixed(1), the rating being in tenths: <<units, tenth>>
RatingOf(vote) ==
    IF vote = None THEN None ELSE Some(<<vote[1] \div 10, vote[1] % 10>>)

\* the object _formatMovie / _formatSeries builds once the external id is known
Meta(kind, rec, imdbId) ==
    [id |-> imdbId, imdb_id |-> imdbId, type |-> kind,
     name |-> IF Truthy(rec.title) THEN rec.title ELSE rec.original_title,
     poster |-> METAHUB_URL \o "/poster/medium/" \o imdbId \o "/img",
     background |-> METAHUB_URL \o "/background/medium/" \o imdbId \o "/img",
     logo |-> METAHUB_URL \o "/logo/medium/" \o imdbId \o "/img",
     description |-> rec.overview,
     releaseInfo |-> YearOf(rec.release_date),
     imdbRating |-> RatingOf(rec.vote_average),
     year |-> YearOf(rec.release_date),
     genres |-> GenreNames(rec.genre_ids)]

\* a formatter without the "skip when there is no IMDb id" test
FormatWith_NoSkip(kind, rec, imdbId) == <<Meta(kind, rec, imdbId)>>

\* what a formatter returns after the resolver answered imdbId: null (the
\* empty sequence) or one meta
FormatWith(kind, rec, imdbId) ==
    IF ~Truthy(imdbId) THEN <<>> ELSE <<Meta(kind, rec, imdbId)>>

---------------------------------------------------------------------------
(* State                                                                   *)

VARIABLES
    clock,      \* Date.now()
    cache,      \* the module-level Map of cached(): key -> [data, timestamp]
    imdbCache,  \* TMDBClient.imdbCache: key -> external id or NULL
    calls,      \* the handler invocations: position and local variables
    hist,       \* history of the computations, for the properties only
    sweep       \* the input and result of the pagination sweep

vars == <<clock, cache, imdbCache, calls, hist, sweep>>


\* a catalogue request: { type, id, extra: { skip } }
Request(id, type, skip) == [id |-> id, type |-> type, skip |-> skip]

\* the requests the consumer sends: an advertised id, an unknown id and the
\* name of an inherited property
Requests ==
    { Request(<<Prefix, "thriller-movies">>, "movie", Absent),
      Request(<<Prefix, "unknown">>, "movie", Absent),
      Request(<<"constructor">>, "movie", Absent) }


\* the Error objects thrown on the way of a listing request
NoError == [message |-> "", status |-> 0]
TypeError == [message |-> "catalog.fetch is not a function", status |-> 0]

\* the ways a request to the upstream fails: the transport rejects, or the
\* response has a status outside the success range
Failures ==
    { [transport |-> TRUE, status |-> 0],
      [transport |-> FALSE, status |-> 404],
      [transport |-> FALSE, status |-> 500] }

\* response.ok
ResponseOk(status) == status \in 200..299

\* what _fetch throws: the rejection of fetch(), or
\* new Error(`TMDB API error: ${response.status}`)
FetchError(why) ==
    IF why.transport THEN [message |-> "request failed", status |-> 0]
    ELSE [message |-> "TMDB API error: ", status |-> why.status]

IdleCall ==
    [pc |-> "idle", id |-> <<>>, type |-> "", skip |-> <<>>, page |-> 0,
     key |-> <<"", 0>>, format |-> "", now |-> 0,
     hit |-> FALSE, stale |-> FALSE, slots |-> <<>>, listReqs |-> 0, idReqs |-> 0,
     outcome |-> "none", error |-> NoError, response |-> NoResponse]

NoHist == [stored |-> << >>, idWritten |-> << >>]

Init ==
    /\ clock = 0
    /\ cache = << >>
    /\ imdbCache = << >>
    /\ calls = [c \in CallIds |-> IdleCall]
    /\ hist = NoHist
    /\ sweep = [skip |-> Absent, page |-> 1, parsed |-> TRUE]

\* Map.set
MapSet(m, k, v) == (k :> v) @@ m

---------------------------------------------------------------------------
(* cached(): the response cache                                            *)

\* a cache that never hits
IsHit_Never(entry, now) == FALSE

\* a cache whose entries never expire
IsHit_NoTtl(entry, now) == entry # <<>>

\* a cache that still serves an entry whose age equals the TTL
IsHit_Inclusive(entry, now) ==
    entry # <<>> /\ (now - entry[1].timestamp) <= CACHE_TTL

\* entry && (now - entry.timestamp) < CACHE_TTL, entry being <<>> (undefined)
\* or <<e>>
IsHit(entry, now) ==
    entry # <<>> /\ (now - entry[1].timestamp) < CACHE_TTL

\* cache.get(key)
CacheGet(key) == IF key \in DOMAIN cache THEN <<cache[key]>> ELSE <<>>

\* cache.set(key, { data, timestamp: now }) of a computation that returned;
\* now is the time at which the call STARTED
CacheStore(m, key, data, now) ==
    MapSet(m, key, [data |-> data, timestamp |-> now])

\* a cache that deletes the entry of a key whose computation failed
CacheAfterThrow_Evicts(m, key, now) == [k \in DOMAIN m \ {key} |-> m[k]]

\* negative caching: a failed computation stores an empty list
CacheAfterThrow_Negative(m, key, now) ==
    MapSet(m, key, [data |-> <<>>, timestamp |-> now])

\* the cache after fn() threw: the await rethrows and cache.set is skipped
CacheAfterThrow(m, key, now) == m

---------------------------------------------------------------------------
(* The identifier resolver and the formatter, per record of a page         *)

\* the synchronous part of _formatMovie / _formatSeries for one record: a
\* record without id is settled as null, a record whose key is in the
\* identifier cache is settled from it, any other leaves one external_ids
\* request outstanding.  seq is the rank of the record's request among the
\* answered requests of its page (0: settled without a request), failed
\* tells that the request failed
StartFormat(kind, rec, ids) ==
    IF rec.id = 0
    THEN [rec |-> rec, st |-> "settled", val |-> <<>>, seq |-> 0, failed |-> FALSE]
    ELSE IF ImdbKey(kind, rec.id) \in DOMAIN ids
    THEN [rec |-> rec, st |-> "settled", seq |-> 0, failed |-> FALSE,
          val |-> FormatWith(kind, rec, ids[ImdbKey(kind, rec.id)])]
    ELSE [rec |-> rec, st |-> "pending", val |-> <<>>, seq |-> 0, failed |-> FALSE]

\* a resolver that caches only the external ids it found
ImdbCacheAfterAnswer_OnlyPresent(ids, key, v) ==
    IF Truthy(v) THEN MapSet(ids, key, v) ELSE ids

\* a resolver that caches null when the request failed
ImdbCacheAfterError_CachesNull(ids, key) == MapSet(ids, key, NULL)

\* imdbCache after a successful external_ids answer carrying imdb_id = v
ImdbCacheAfterAnswer(ids, key, v) == MapSet(ids, key, OrNull(v))

\* imdbCache after a failed external_ids request: the catch block returns null
ImdbCacheAfterError(ids, key) == ids

RECURSIVE Flatten(_)
Flatten(vals) == IF vals = <<>> THEN <<>> ELSE Head(vals) \o Flatten(Tail(vals))

\* a list to which every formatter appends its meta when it completes
FilterBoolean_CompletionOrder(slots) ==
    Flatten([k \in 1..(Len(slots) + 1) |->
        Flatten([i \in 1..Len(slots) |->
            IF slots[i].seq = k - 1 THEN slots[i].val ELSE <<>>])])

\* (await Promise.all(...)).filter(Boolean): the values of the settled slots,
\* in page order
FilterBoolean(slots) == Flatten([i \in 1..Len(slots) |-> slots[i].val])

\* a combinator whose promise never resolves
AllSettled_Never(slots) == FALSE

\* a combinator that resolves as soon as one formatter has settled
AllSettled_Any(slots) ==
    slots = <<>> \/ \E i \in 1..Len(slots) : slots[i].st = "settled"

\* Promise.all resolves
AllSettled(slots) == \A i \in 1..Len(slots) : slots[i].st = "settled"

NumPending(slots) == Cardinality({i \in 1..Len(slots) : slots[i].st = "pending"})

---------------------------------------------------------------------------
(* The handler's responses                                                 *)

\* a handler that rejects unknown catalogue ids
UnknownResponse_Throws(call) ==
    Rejected([message |-> "unknown catalogue", status |-> 0])

\* a handler without try / catch
CatchResponse_Rethrow(msg) == Rejected(msg)

\* return { metas: [] } for a catalogue id without registry entry
UnknownResponse(call) == Resolved([metas |-> <<>>])

\* return { metas: results }
ResultResponse(results) == Resolved([metas |-> results])

\* the catch block of the handler: logs, then return { metas: [] }
CatchResponse(msg) == Resolved([metas |-> <<>>])

---------------------------------------------------------------------------
(* History, for the properties only                                        *)

\* a computation for key returned data at the current time
HistStored(h, key, data, now) ==
    [h EXCEPT !.stored =
        MapSet(@, key, [start |-> now, data |-> data, born |-> clock])]

\* an external_ids request for key was answered with v
HistIdAnswer(h, key, v) == [h EXCEPT !.idWritten = MapSet(@, key, v)]

---------------------------------------------------------------------------
(* Actions                                                                 *)

\* a handler that has returned hands its response to the consumer before the
\* event loop runs anything else
NoneReturning == \A c \in CallIds : calls[c].pc # "done"

\* a cache that joins a computation in flight for the same key instead of
\* starting its own
MissCall_JoinsInFlight(started) ==
    IF \E d \in CallIds : /\ calls[d].pc \in {"listing", "resolving"}
                          /\ calls[d].key = started.key
    THEN [started EXCEPT !.pc = "listing", !.listReqs = 0]
    ELSE [started EXCEPT !.pc = "listing", !.listReqs = 1]

\* a miss of cached(): await fn() runs the operation's own computation, which
\* sends its listing request, whatever else is in flight
MissCall(started) == [started EXCEPT !.pc = "listing", !.listReqs = 1]

\* the handler is invoked: everything up to the first await that suspends.
\* Unknown id: { metas: [] }.  Cache hit: the stored list is returned.  Cache
\* miss: the listing request is sent and the call waits for its answer.
HandlerStart(c, req) ==
    /\ NoneReturning
    /\ calls[c].pc = "idle"
    \* the invocation takes the first free slot
    /\ \A d \in CallIds : d < c => calls[d].pc # "idle"
    /\ LET catalogId == CatalogId(req.id)
           found == Lookup(catalogId)
           page == PageOf(req.skip)
           base == [IdleCall EXCEPT !.id = req.id, !.type = req.type,
                                    !.skip = req.skip]
       IN  IF found = "undefined"
           THEN calls' = [calls EXCEPT ![c] =
                    [base EXCEPT !.pc = "done",
                                 !.response = UnknownResponse(base)]]
           ELSE IF found = "inherited"
           \* catalog.fetch is undefined: the call throws inside the try block
           THEN calls' = [calls EXCEPT ![c] =
                    [base EXCEPT !.pc = "done", !.page = page,
                                 !.outcome = "threw", !.error = TypeError,
                                 !.response = CatchResponse(TypeError)]]
           ELSE LET e == CATALOGS[catalogId]
                    key == CacheKey(e.method, e.arg, page)
                    entry == CacheGet(key)
                    started == [base EXCEPT !.page = page, !.key = key,
                                    !.format = Operations[e.method].format,
                                    !.now = clock,
                                    !.stale = (entry # <<>> /\ ~IsHit(entry, clock))]
                IN  IF IsHit(entry, clock)
                    THEN calls' = [calls EXCEPT ![c] =
                            [started EXCEPT !.pc = "done", !.hit = TRUE,
                                 !.outcome = "returned",
                                 !.response = ResultResponse(entry[1].data)]]
                    ELSE calls' = [calls EXCEPT ![c] = MissCall(started)]
    /\ UNCHANGED <<clock, cache, imdbCache, hist, sweep>>

\* a formatter that lets the failure of its identifier request through:
\* Promise.all rejects and the operation throws
Finished_RejectsOnFailure(call) ==
    IF \E i \in 1..Len(call.slots) : call.slots[i].failed
    THEN [call EXCEPT !.pc = "done", !.outcome = "threw",
                      !.response = CatchResponse(NoError)]
    ELSE [call EXCEPT !.pc = "done", !.outcome = "returned",
                      !.response = ResultResponse(FilterBoolean(call.slots))]

\* every formatter of the page has settled: Promise.all resolves, the list is
\* filtered, cached() stores it and the handler returns it
Finished(call) ==
    LET results == FilterBoolean(call.slots) IN
    [call EXCEPT !.pc = "done", !.outcome = "returned",
                 !.response = ResultResponse(results)]

\* a client that sends the listing request again when it fails
ListingError_Retry(c, why) ==
    /\ NoneReturning
    /\ calls[c].pc = "listing"
    /\ calls' = [calls EXCEPT ![c] = [@ EXCEPT !.listReqs = @ + 1]]
    /\ UNCHANGED <<clock, cache, imdbCache, hist, sweep>>

\* the listing request of call c fails (transport error or status not ok):
\* _fetch throws, the operation and cached() rethrow, the handler catches
ListingError(c, why) ==
    /\ NoneReturning
    /\ calls[c].pc = "listing"
    /\ why.transport \/ ~ResponseOk(why.status)
    /\ calls' = [calls EXCEPT ![c] =
            [@ EXCEPT !.pc = "done", !.outcome = "threw",
                      !.error = FetchError(why),
                      !.response = CatchResponse(FetchError(why))]]
    /\ cache' = CacheAfterThrow(cache, calls[c].key, calls[c].now)
    /\ UNCHANGED <<clock, imdbCache, hist, sweep>>

\* the listing request of call c is answered with a page: every record is
\* handed to the formatter at once
ListingOk(c, page) ==
    /\ NoneReturning
    /\ calls[c].pc = "listing"
    /\ LET call == calls[c]
           slots == [i \in 1..Len(page) |->
                        StartFormat(call.format, page[i], imdbCache)]
           next == [call EXCEPT !.pc = "resolving", !.slots = slots,
                                !.idReqs = NumPending(slots)]
       IN  IF AllSettled(slots)
           THEN /\ calls' = [calls EXCEPT ![c] = Finished(next)]
                /\ cache' = CacheStore(cache, call.key,
                                       FilterBoolean(slots), call.now)
                /\ hist' = HistStored(hist, call.key,
                                      FilterBoolean(slots), call.now)
           ELSE /\ calls' = [calls EXCEPT ![c] = next]
                /\ UNCHANGED <<cache, hist>>
    /\ UNCHANGED <<clock, imdbCache, sweep>>

\* slot i of call c settles with value val; when it was the last one the
\* computation returns
Settle(c, i, val, failed, h) ==
    LET call == calls[c]
        rank == Cardinality({j \in 1..Len(call.slots) : call.slots[j].seq > 0}) + 1
        slots == [call.slots EXCEPT ![i] =
                    [@ EXCEPT !.st = "settled", !.val = val, !.seq = rank,
                              !.failed = failed]]
        next == [call EXCEPT !.slots = slots]
    IN  IF AllSettled(slots)
        THEN /\ calls' = [calls EXCEPT ![c] = Finished(next)]
             /\ cache' = CacheStore(cache, call.key,
                                    FilterBoolean(slots), call.now)
             /\ hist' = HistStored(h, call.key, FilterBoolean(slots), call.now)
        ELSE /\ calls' = [calls EXCEPT ![c] = next]
             /\ cache' = cache
             /\ hist' = h

\* the external_ids request of record i of call c is answered, imdb_id = v
IdOk(c, i, v) ==
    /\ NoneReturning
    /\ calls[c].pc = "resolving"
    /\ i \in 1..Len(calls[c].slots)
    /\ calls[c].slots[i].st = "pending"
    /\ LET call == calls[c]
           rec == call.slots[i].rec
           key == ImdbKey(call.format, rec.id)
       IN  /\ v \in ImdbAnswers(call.format, rec.id)
           /\ imdbCache' = ImdbCacheAfterAnswer(imdbCache, key, v)
           /\ Settle(c, i, FormatWith(call.format, rec, OrNull(v)), FALSE,
                     HistIdAnswer(hist, key, OrNull(v)))
    /\ UNCHANGED <<clock, sweep>>

\* the external_ids request of record i of call c fails
IdError(c, i) ==
    /\ NoneReturning
    /\ calls[c].pc = "resolving"
    /\ i \in 1..Len(calls[c].slots)
    /\ calls[c].slots[i].st = "pending"
    /\ LET call == calls[c]
           key == ImdbKey(call.format, call.slots[i].rec.id)
       IN  /\ imdbCache' = ImdbCacheAfterError(imdbCache, key)
           /\ Settle(c, i, FormatWith(call.format, call.slots[i].rec, NULL), TRUE,
                     hist)
    /\ UNCHANGED <<clock, sweep>>

\* the response of call c is handed to the consumer
Deliver(c) ==
    /\ calls[c].pc = "done"
    /\ calls' = [calls EXCEPT ![c] = IdleCall]
    /\ UNCHANGED <<clock, cache, imdbCache, hist, sweep>>

\* time passes
Tick ==
    /\ NoneReturning
    /\ clock < MaxTicks * TickMs
    /\ clock' = clock + TickMs
    /\ UNCHANGED <<cache, imdbCache, calls, hist, sweep>>

Next ==
    \/ \E c \in CallIds, req \in Requests : HandlerStart(c, req)
    \/ \E c \in CallIds, why \in Failures : ListingError(c, why)
    \/ \E c \in CallIds, page \in Pages : ListingOk(c, page)
    \/ \E c \in CallIds, i \in PageLens \ {0},
            v \in UNION {ImdbAnswers(k, n) : k \in {"movie", "series"}, n \in RecordIds \ {0}} :
            IdOk(c, i, v)
    \/ \E c \in CallIds, i \in PageLens \ {0} : IdError(c, i)
    \/ \E c \in CallIds : Deliver(c)
    \/ Tick

Spec == Init /\ [][Next]_vars

---------------------------------------------------------------------------
(* The handler under the assumption that the upstream answers every        *)
(* request, and that the event loop runs every callback that is ready      *)

\* the upstream answers a request of call c, successfully or not
Respond(c) ==
    \/ \E why \in Failures : ListingError(c, why)
    \/ \E page \in Pages : ListingOk(c, page)
    \/ \E i \in PageLens \ {0},
            v \in UNION {ImdbAnswers(k, n) : k \in {"movie", "series"},
                                             n \in RecordIds \ {0}} :
            IdOk(c, i, v)
    \/ \E i \in PageLens \ {0} : IdError(c, i)

NextLive ==
    \/ \E c \in CallIds, req \in Requests : HandlerStart(c, req)
    \/ \E c \in CallIds : Respond(c)
    \/ \E c \in CallIds : Deliver(c)

SpecLive ==
    /\ Init
    /\ [][NextLive]_vars
    /\ \A c \in CallIds : SF_vars(Respond(c)) /\ WF_vars(Deliver(c))

---------------------------------------------------------------------------
(* The pagination sweep: lines 212-213 of the handler applied to every     *)
(* short skip string                                                       *)

SkipAlphabet == {"0", "2", "4", "5", "-", ".", " ", "a", "x"}

SkipStrings ==
    {Absent} \cup UNION {[1..n -> SkipAlphabet] : n \in 0..MaxSkipLen}

\* a request with any of the skip strings has arrived
InitPage ==
    /\ clock = 0
    /\ cache = << >>
    /\ imdbCache = << >>
    /\ calls = [c \in CallIds |-> IdleCall]
    /\ hist = NoHist
    /\ sweep \in {[skip |-> str, page |-> 0, parsed |-> FALSE] : str \in SkipStrings}

\* const skip = parseInt(extra?.skip) || 0; const page = ...
PageSweep ==
    /\ ~sweep.parsed
    /\ sweep' = [sweep EXCEPT !.page = PageOf(sweep.skip), !.parsed = TRUE]
    /\ UNCHANGED <<clock, cache, imdbCache, calls, hist>>

SpecPage == InitPage /\ [][PageSweep]_vars

---------------------------------------------------------------------------
(* The query sweep: the URL _fetch builds, for every small params object   *)

\* the values of a property of the params object
Undefined == [t |-> "undefined", v |-> ""]
Null == [t |-> "null", v |-> ""]
Str(v) == [t |-> "string", v |-> v]

ParamValues == {Undefined, Null, Str(""), Str("2"), Str("en-US")}

\* the property names, in the order Object.entries lists them
ParamOrder == <<"page", "with_genres", "language", "api_key">>

ParamKeys == {ParamOrder[i] : i \in 1..Len(ParamOrder)}

\* the params objects: any subset of the names, any values
ParamObjects == UNION {[K -> ParamValues] : K \in SUBSET ParamKeys}

\* a test that lets null through
IsSent_OnlyUndefined(value) == value.t # "undefined"

\* value !== undefined && value !== null
IsSent(value) == value.t # "undefined" /\ value.t # "null"

\* for (const [key, value] of Object.entries(params)) ... searchParams.set
RECURSIVE SetEntries(_, _, _)
SetEntries(query, keys, params) ==
    IF keys = <<>> THEN query
    ELSE LET k == Head(keys)
             next == IF k \in DOMAIN params /\ IsSent(params[k])
                     THEN MapSet(query, k, IF params[k].t = "string"
                                           THEN params[k].v ELSE params[k].t)
                     ELSE query
         IN  SetEntries(next, Tail(keys), params)

\* the search parameters of the URL of a request
BuildQuery(apiKey, language, params) ==
    SetEntries(MapSet(MapSet(<< >>, "api_key", apiKey), "language", language),
               ParamOrder, params)

InitFetch ==
    /\ clock = 0
    /\ cache = << >>
    /\ imdbCache = << >>
    /\ calls = [c \in CallIds |-> IdleCall]
    /\ hist = NoHist
    /\ sweep \in {[apiKey |-> "KEY", language |-> l, params |-> o,
                    query |-> << >>, built |-> FALSE] :
                    l \in {"fr-FR", "de-DE"}, o \in ParamObjects}

FetchSweep ==
    /\ ~sweep.built
    /\ sweep' = [sweep EXCEPT
            !.query = BuildQuery(sweep.apiKey, sweep.language, sweep.params),
            !.built = TRUE]
    /\ UNCHANGED <<clock, cache, imdbCache, calls, hist>>

SpecFetch == InitFetch /\ [][FetchSweep]_vars

---------------------------------------------------------------------------
(* The formatter sweep: _formatMovie / _formatSeries applied to records    *)
(* with every short date string and every short genre id list             *)

DateAlphabet == {"1", "9", "8", "-"}

SweepDates ==
    {None, Some(Date1989), Some(Date2021)}
        \cup {Some(d) : d \in UNION {[1..n -> DateAlphabet] : n \in 0..MaxDateLen}}

\* 9999 is not in the genre table
SweepGenreIds == {53, 18, 9999}

SweepGenres ==
    {None} \cup {Some(g) : g \in UNION {[1..n -> SweepGenreIds] : n \in 0..MaxGenres}}

SweepRecords ==
    {Raw(1, "One", d, Some(<<53, 9999>>)) : d \in SweepDates}
        \cup {Raw(1, "One", Some(Date1989), g) : g \in SweepGenres}

\* a record has reached a formatter and the resolver has answered
InitFormat ==
    /\ clock = 0
    /\ cache = << >>
    /\ imdbCache = << >>
    /\ calls = [c \in CallIds |-> IdleCall]
    /\ hist = NoHist
    /\ sweep \in {[kind |-> k, rec |-> r, imdbId |-> v, out |-> <<>>, done |-> FALSE] :
                    k \in {"movie", "series"}, r \in SweepRecords,
                    v \in {"tt0097165", NULL}}

\* the formatter returns null or the meta
FormatSweep ==
    /\ ~sweep.done
    /\ sweep' = [sweep EXCEPT !.out = FormatWith(sweep.kind, sweep.rec, sweep.imdbId),
                              !.done = TRUE]
    /\ UNCHANGED <<clock, cache, imdbCache, calls, hist>>

SpecFormat == InitFormat /\ [][FormatSweep]_vars

---------------------------------------------------------------------------
(* The details sweep: the computation of getMovieDetails /                 *)
(* getSeriesDetails applied to small detail records                        *)

\* a JavaScript value of the computation: a plain value (null is the empty
\* sequence, a meta is <<meta>>), or a Promise object that will resolve to
\* that value; props are the properties assigned to the object itself
Plain(v) == [promise |-> FALSE, value |-> v, props |-> << >>]
PromiseOf(v) == [promise |-> TRUE, value |-> v, props |-> << >>]

\* !x : an object, and so a Promise, is never falsy
Falsy(x) == ~x.promise /\ x.value = << >>

\* x.name = v, for every name of the function props
Assign(x, props) ==
    IF x.promise THEN [x EXCEPT !.props = props @@ x.props]
    ELSE [x EXCEPT !.value = <<props @@ x.value[1]>>]

\* the value an async function resolves to when it returns x: a returned
\* Promise is adopted
Returns(x) == x.value

\* a detail record: the fields of a raw record (without genre_ids) and
\* genres, runtime (0: none), the cast names and the external ids
Detail(n, genres, runtime, cast, imdb) ==
    [genres |-> genres, runtime |-> runtime, cast |-> cast,
     external_imdb_id |-> imdb]
        @@ Raw(n, "One", Some(Date1989), None)

DetailGenres == {None, Some(<< >>), Some(<<"Drama">>), Some(<<"Drama", "Crime">>)}

DetailCasts ==
    {None, Some(<< >>), Some(<<"A", "B">>), Some(<<"A", "B", "C", "D", "E", "F">>)}

DetailRecords ==
    {Detail(n, g, r, c, i) : n \in {0, 1}, g \in DetailGenres, r \in {0, 120},
                             c \in DetailCasts, i \in {NULL, "tt0097165"}}

\* data.genres?.map(g => g.name) || []
DetailGenreNames(data) == IF data.genres = None THEN << >> ELSE data.genres[1]

\* data.runtime ? `${data.runtime} min` : null   (min/ep for a series)
DetailRuntime(kind, data) ==
    IF data.runtime = 0 THEN None
    ELSE Some(<<data.runtime, IF kind = "movie" THEN " min" ELSE " min/ep">>)

\* data.credits?.cast?.slice(0, 5).map(c => c.name) || []
DetailCast(data) ==
    IF data.cast = None THEN << >>
    ELSE SubSeq(data.cast[1], 1, IF Len(data.cast[1]) < 5 THEN Len(data.cast[1]) ELSE 5)

\* the assignments of the enrichment block; meta.id follows meta.imdb_id
\* when there is one
Enrichments(kind, data) ==
    LET base == [genres |-> DetailGenreNames(data),
                 runtime |-> DetailRuntime(kind, data),
                 cast |-> DetailCast(data),
                 imdb_id |-> data.external_imdb_id]
    IN  IF Truthy(data.external_imdb_id)
        THEN [id |-> data.external_imdb_id] @@ base
        ELSE base

\* the function given to cached() by getMovieDetails / getSeriesDetails, the
\* resolver answering imdbId: the formatter is called WITHOUT await, so meta
\* is its Promise
DetailsOf(kind, data, imdbId) ==
    LET meta == PromiseOf(IF data.id = 0 THEN << >>
                          ELSE FormatWith(kind, data, imdbId))
    IN  IF Falsy(meta) THEN << >>
        ELSE Returns(Assign(meta, Enrichments(kind, data)))

InitDetails ==
    /\ clock = 0
    /\ cache = << >>
    /\ imdbCache = << >>
    /\ calls = [c \in CallIds |-> IdleCall]
    /\ hist = NoHist
    /\ sweep \in {[kind |-> k, data |-> d, imdbId |-> v, out |-> << >>,
                    returned |-> FALSE] :
                    k \in {"movie", "series"}, d \in DetailRecords,
                    v \in {"tt0097165", NULL}}

DetailsSweep ==
    /\ ~sweep.returned
    /\ sweep' = [sweep EXCEPT !.out = DetailsOf(sweep.kind, sweep.data, sweep.imdbId),
                              !.returned = TRUE]
    /\ UNCHANGED <<clock, cache, imdbCache, calls, hist>>

SpecDetails == InitDetails /\ [][DetailsSweep]_vars

---------------------------------------------------------------------------
(* One fetch operation over pages of up to three records, two of which     *)
(* have an external id: the orders in which the identifier requests of a   *)
(* page are answered                                                       *)

OrderLens == {0, 1, 2, 3}

OrderIds == {1, 2, 3}

OrderPages == UNION {[1..n -> {RawRecord(k) : k \in OrderIds}] : n \in OrderLens}

ThrillerMovies == Request(<<Prefix, "thriller-movies">>, "movie", Absent)

NextOrder ==
    \/ HandlerStart(1, ThrillerMovies)
    \/ \E page \in OrderPages : ListingOk(1, page)
    \/ \E i \in OrderLens \ {0},
            v \in UNION {ImdbAnswers("movie", n) : n \in OrderIds} : IdOk(1, i, v)
    \/ \E i \in OrderLens \ {0} : IdError(1, i)
    \/ Deliver(1)

SpecOrder == Init /\ [][NextOrder]_vars

---------------------------------------------------------------------------
(* A movie catalogue and a series catalogue served one request at a time   *)
(* by the same client: the upstream numbers movies and series              *)
(* independently, so both pages list records 1 and 2                        *)

ThrillerSeries == Request(<<Prefix, "thriller-series">>, "series", Absent)

NextKinds ==
    \/ \E req \in {ThrillerMovies, ThrillerSeries} : HandlerStart(1, req)
    \/ \E page \in Pages : ListingOk(1, page)
    \/ \E i \in PageLens \ {0},
            v \in UNION {ImdbAnswers(k, n) : k \in {"movie", "series"},
                                             n \in RecordIds \ {0}} :
            IdOk(1, i, v)
    \/ \E i \in PageLens \ {0} : IdError(1, i)
    \/ Deliver(1)

SpecKinds == Init /\ [][NextKinds]_vars

---------------------------------------------------------------------------
(* The thriller catalogue while the upstream's page does not change: page 1 *)
(* lists two records that both have an external id, and only the           *)
(* identifier requests may fail                                            *)

SteadyIds == <<1, 3>>

SteadyPage == [i \in DOMAIN SteadyIds |-> RawRecord(SteadyIds[i])]

NextSteady ==
    \/ \E c \in CallIds : HandlerStart(c, ThrillerMovies)
    \/ \E c \in CallIds : ListingOk(c, SteadyPage)
    \/ \E c \in CallIds, i \in DOMAIN SteadyIds :
            IdOk(c, i, ImdbOf("movie", SteadyIds[i]))
    \/ \E c \in CallIds, i \in DOMAIN SteadyIds : IdError(c, i)
    \/ \E c \in CallIds : Deliver(c)
    \/ Tick

SpecSteady == Init /\ [][NextSteady]_vars

---------------------------------------------------------------------------
(* The handler one request at a time, for requests the manifest advertises *)
(* and requests it does not                                                *)

\* manifest.catalogs: one { type, id } per registry entry
ManifestCatalogs ==
    {[type |-> CATALOGS[k].type, id |-> <<Prefix, k>>] : k \in DOMAIN CATALOGS}

\* the request names a catalogue of the manifest, under any type
Advertised(id) == \E m \in ManifestCatalogs : m.id = id

\* two advertised requests, an advertised id under the other type, a bare
\* registry key, a key with the prefix in its middle, an unknown id and the
\* name of an inherited property
DispatchRequests ==
    { ThrillerMovies, ThrillerSeries,
      Request(<<Prefix, "thriller-movies">>, "series", Absent),
      Request(<<"thriller-movies">>, "movie", Absent),
      Request(<<"thriller-", Prefix, "movies">>, "movie", Absent),
      Request(<<Prefix, "unknown">>, "movie", Absent),
      Request(<<"constructor">>, "movie", Absent) }

NextDispatch ==
    \/ \E req \in DispatchRequests : HandlerStart(1, req)
    \/ \E why \in Failures : ListingError(1, why)
    \/ \E page \in Pages : ListingOk(1, page)
    \/ \E i \in PageLens \ {0},
            v \in UNION {ImdbAnswers(k, n) : k \in {"movie", "series"},
                                             n \in RecordIds \ {0}} :
            IdOk(1, i, v)
    \/ \E i \in PageLens \ {0} : IdError(1, i)
    \/ Deliver(1)

SpecDispatch == Init /\ [][NextDispatch]_vars

---------------------------------------------------------------------------
(* Two TMDBClient instances of one process, each calling                   *)
(* getMoviesByGenre(53, 1): the instances have their own apiKey, language  *)
(* and imdbCache, and share the module-level cache of cached()             *)

\* new TMDBClient(apiKey, language)
TMDBClient(apiKey, language) ==
    [apiKey |-> apiKey, language |-> language, imdbCache |-> << >>]

Instances == <<TMDBClient("KEY", "fr-FR"), TMDBClient("OTHER", "en-US")>>

InstanceIds == DOMAIN Instances

\* the query of the listing request of getMoviesByGenre(53, 1) of an instance
ListingQuery(inst) ==
    BuildQuery(inst.apiKey, inst.language,
               [page |-> Str("1"), with_genres |-> Str("53")])

\* the query of an external_ids request of an instance
IdQuery(inst) == BuildQuery(inst.apiKey, inst.language, << >>)

\* the upstream localises the title of a record by the language of the query
TitleIn(language) == IF language = "fr-FR" THEN "Un" ELSE "One"

\* the page the upstream answers a listing query with
UpstreamPage(query) ==
    <<[RawRecord(1) EXCEPT !.title = TitleIn(query["language"])]>>

GenreKey == CacheKey("getMoviesByGenre", "53", 1)

IdleInstance(inst) ==
    [self |-> inst, pc |-> "idle", now |-> 0, out |-> << >>, from |-> {}]

\* the instances have been constructed and nothing was called
InitClients ==
    /\ clock = 0
    /\ cache = << >>
    /\ imdbCache = << >>
    /\ calls = [c \in CallIds |-> IdleCall]
    /\ hist = NoHist
    /\ sweep = [inst |-> [i \in InstanceIds |-> IdleInstance(Instances[i])],
                by |-> << >>]

\* the call of instance i returns data, computed by the queries from; a
\* computation that returns stores its list under the start time of the call
ClientReturns(i, ids, data, from, stores) ==
    /\ sweep' = [sweep EXCEPT
            !.inst[i] = [@ EXCEPT !.pc = "done", !.out = data, !.from = from,
                                  !.self = [@ EXCEPT !.imdbCache = ids]],
            !.by = IF stores THEN MapSet(@, GenreKey, from) ELSE @]
    /\ cache' = IF stores
                THEN CacheStore(cache, GenreKey, data, sweep.inst[i].now)
                ELSE cache

\* instance i is called: a hit returns the stored list, a miss sends the
\* listing request with the instance's key and language
ClientCall(i) ==
    /\ sweep.inst[i].pc = "idle"
    /\ LET me == sweep.inst[i]
           entry == CacheGet(GenreKey)
       IN  IF IsHit(entry, clock)
           THEN ClientReturns(i, me.self.imdbCache, entry[1].data,
                              sweep.by[GenreKey], FALSE)
           ELSE /\ sweep' = [sweep EXCEPT !.inst[i] =
                        [me EXCEPT !.pc = "listing", !.now = clock,
                                   !.from = {ListingQuery(me.self)}]]
                /\ cache' = cache
    /\ UNCHANGED <<clock, imdbCache, calls, hist>>

\* the listing request of instance i is answered: the record is formatted
\* with the cached external id, or an external_ids request is sent
ClientListingOk(i) ==
    /\ sweep.inst[i].pc = "listing"
    /\ LET me == sweep.inst[i]
           page == UpstreamPage(ListingQuery(me.self))
           slot == StartFormat("movie", page[1], me.self.imdbCache)
       IN  IF slot.st = "settled"
           THEN ClientReturns(i, me.self.imdbCache, slot.val, me.from, TRUE)
           ELSE /\ sweep' = [sweep EXCEPT !.inst[i] =
                        [me EXCEPT !.pc = "resolving",
                                   !.from = @ \cup {IdQuery(me.self)}]]
                /\ cache' = cache
    /\ UNCHANGED <<clock, imdbCache, calls, hist>>

\* the listing request of instance i fails: the call rejects, nothing is stored
ClientListingError(i) ==
    /\ sweep.inst[i].pc = "listing"
    /\ sweep' = [sweep EXCEPT !.inst[i] = [@ EXCEPT !.pc = "rejected"]]
    /\ UNCHANGED <<clock, cache, imdbCache, calls, hist>>

\* the external_ids request of instance i is answered (ok) or fails
ClientId(i, ok) ==
    /\ sweep.inst[i].pc = "resolving"
    /\ LET me == sweep.inst[i]
           rec == UpstreamPage(ListingQuery(me.self))[1]
           key == ImdbKey("movie", rec.id)
           v == IF ok THEN ImdbOf("movie", rec.id) ELSE NULL
           ids == IF ok THEN ImdbCacheAfterAnswer(me.self.imdbCache, key, v)
                  ELSE ImdbCacheAfterError(me.self.imdbCache, key)
       IN  ClientReturns(i, ids, FormatWith("movie", rec, v), me.from, TRUE)
    /\ UNCHANGED <<clock, imdbCache, calls, hist>>

\* the caller of instance i has taken the outcome of its call
ClientDone(i) ==
    /\ sweep.inst[i].pc \in {"done", "rejected"}
    /\ sweep' = [sweep EXCEPT !.inst[i] = IdleInstance(@.self)]
    /\ UNCHANGED <<clock, cache, imdbCache, calls, hist>>

\* time passes
ClientTick ==
    /\ clock < MaxTicks * TickMs
    /\ clock' = clock + TickMs
    /\ UNCHANGED <<cache, imdbCache, calls, hist, sweep>>

NextClients ==
    \/ \E i \in InstanceIds : ClientCall(i)
    \/ \E i \in InstanceIds : ClientListingOk(i)
    \/ \E i \in InstanceIds : ClientListingError(i)
    \/ \E i \in InstanceIds, ok \in BOOLEAN : ClientId(i, ok)
    \/ \E i \in InstanceIds : ClientDone(i)
    \/ ClientTick

SpecClients == InitClients /\ [][NextClients]_vars

---------------------------------------------------------------------------
(* Properties                                                              *)

MetasOf(c) == calls[c].response.value.metas

\* call c has just returned the result of its fetch operation
Returned(c) == calls[c].pc = "done" /\ calls[c].outcome = "returned"

\* the step in which call c is invoked, and whether it reached a fetch function
Invoked(c) == calls[c].pc = "idle" /\ calls'[c].pc # "idle"
Dispatched(c) == calls[c].key # <<"", 0>>

\* key has an entry younger than the TTL in the map m at time t
FreshIn(m, key, t) == key \in DOMAIN m /\ t - m[key].timestamp < CACHE_TTL

\* C1: every meta a fetch operation returns or caches has a non-empty external
\* id and is the meta of a record of the page that has an upstream id and an
\* external id; the list is never longer than the page
C1_NoUnresolvedMeta ==
    /\ \A c \in CallIds : (Returned(c) /\ ~calls[c].hit) =>
        /\ Len(MetasOf(c)) <= Len(calls[c].slots)
        /\ \A i \in 1..Len(MetasOf(c)) :
            /\ MetasOf(c)[i].id \notin {NULL, ""}
            /\ \E j \in 1..Len(calls[c].slots) :
                LET rec == calls[c].slots[j].rec IN
                /\ rec.id # 0
                /\ Resolvable(rec.id)
                /\ MetasOf(c)[i].id = ImdbOf(calls[c].format, rec.id)
                /\ MetasOf(c)[i].name = rec.title
    /\ \A c \in CallIds : Returned(c) =>
        \A i \in 1..Len(MetasOf(c)) : MetasOf(c)[i].id \notin {NULL, ""}
    /\ \A k \in DOMAIN cache : \A i \in 1..Len(cache[k].data) :
        cache[k].data[i].id \notin {NULL, ""}

\* a page of two records came back as a list of one meta
C1_Witness ==
    \E c \in CallIds :
        /\ Returned(c) /\ ~calls[c].hit
        /\ Len(calls[c].slots) = 2
        /\ Len(MetasOf(c)) = 1

\* C2: a call that starts less than CACHE_TTL after the start of the most
\* recently returned computation for its key issues no upstream request and
\* returns the list that computation stored
C2_SecondCallServedFromCache ==
    [][\A c \in CallIds :
        (/\ Invoked(c)
         /\ Dispatched(c)'
         /\ calls'[c].key \in DOMAIN hist.stored
         /\ clock - hist.stored[calls'[c].key].start < CACHE_TTL)
        => /\ calls'[c].pc = "done"
           /\ calls'[c].hit
           /\ calls'[c].listReqs = 0
           /\ calls'[c].idReqs = 0
           /\ calls'[c].response =
                Resolved([metas |-> hist.stored[calls'[c].key].data])]_vars

\* a call was served from the cache some time after the first one returned
C2_Witness ==
    \E c \in CallIds :
        /\ Returned(c) /\ calls[c].hit
        /\ calls[c].listReqs = 0
        /\ calls[c].now > hist.stored[calls[c].key].born
        /\ MetasOf(c) # <<>>

\* C3: a call that starts CACHE_TTL or more after the last successful
\* computation for its key returned is a miss that sends a listing request,
\* and a computation that returns overwrites the entry with its own result
C3_StaleEntryRecomputed ==
    [][/\ \A c \in CallIds :
            (/\ Invoked(c)
             /\ Dispatched(c)'
             /\ calls'[c].key \in DOMAIN hist.stored
             /\ clock - hist.stored[calls'[c].key].born >= CACHE_TTL)
            => /\ calls'[c].pc = "listing"
               /\ ~calls'[c].hit
               /\ calls'[c].listReqs = 1
       /\ \A c \in CallIds :
            (calls[c].pc \in {"listing", "resolving"} /\ Returned(c)')
            => /\ calls'[c].key \in DOMAIN cache'
               /\ cache'[calls'[c].key] =
                    [data |-> calls'[c].response.value.metas,
                     timestamp |-> calls[c].now]]_vars

\* a call that found a stale entry has overwritten it with a different list
C3_Witness ==
    \E c \in CallIds :
        /\ Returned(c) /\ calls[c].stale
        /\ calls[c].now >= CACHE_TTL
        /\ cache[calls[c].key].timestamp = calls[c].now
        /\ MetasOf(c) # <<>>

\* C4: a value returned by cached() was produced by a computation that
\* returned less than CACHE_TTL ago
C4_ReturnedValueYoungerThanTtl ==
    \A c \in CallIds : Returned(c) =>
        /\ calls[c].key \in DOMAIN hist.stored
        /\ MetasOf(c) = hist.stored[calls[c].key].data
        /\ clock - hist.stored[calls[c].key].born < CACHE_TTL

\* a hit on an entry written a while ago by a call that overlapped another
\* call for the same key, which is still in flight
C4_Witness ==
    \E c, d \in CallIds :
        /\ c # d
        /\ Returned(c) /\ calls[c].hit
        /\ clock > hist.stored[calls[c].key].born
        /\ hist.stored[calls[c].key].born > hist.stored[calls[c].key].start
        /\ calls[d].pc \in {"listing", "resolving"}
        /\ calls[d].key = calls[c].key

\* C5: a failed listing request makes the fetch operation throw, leaves the
\* cache as it was, and a call that finds no fresh entry computes again
C5_FailedComputeNotCached ==
    [][/\ \A c \in CallIds :
            (\E why \in Failures : ListingError(c, why))
            => /\ cache' = cache
               /\ calls'[c].outcome = "threw"
       /\ \A c \in CallIds :
            (Invoked(c) /\ Dispatched(c)'
                /\ ~FreshIn(cache, calls'[c].key, clock))
            => /\ calls'[c].pc = "listing"
               /\ calls'[c].listReqs = 1]_vars

\* a computation failed while a stale entry was in the cache
C5_Witness ==
    \E c \in CallIds :
        /\ calls[c].pc = "done" /\ calls[c].outcome = "threw"
        /\ calls[c].listReqs = 1
        /\ calls[c].stale
        /\ calls[c].key \in DOMAIN cache
        /\ cache[calls[c].key].timestamp < calls[c].now

\* the records of a page that the resolver has to ask the upstream about
Unresolved(kind, slots, ids) ==
    {i \in 1..Len(slots) :
        slots[i].rec.id # 0 /\ ImdbKey(kind, slots[i].rec.id) \notin DOMAIN ids}

\* C6: a failed external_ids request settles the record as absent without
\* making the operation throw and leaves the identifier cache as it was; and
\* a resolve call that finds no entry for its key sends a request
C6_ResolveErrorNotCached ==
    [][/\ \A c \in CallIds, i \in PageLens \ {0} :
            IdError(c, i)
            => /\ imdbCache' = imdbCache
               /\ calls'[c].slots[i].st = "settled"
               /\ calls'[c].slots[i].val = <<>>
               /\ calls'[c].outcome # "threw"
               /\ calls'[c].response.state # "rejected"
       /\ \A c \in CallIds :
            (calls[c].pc = "listing" /\ calls'[c].pc \in {"resolving", "done"}
                /\ calls'[c].outcome # "threw")
            => \A i \in Unresolved(calls'[c].format, calls'[c].slots, imdbCache) :
                    calls'[c].slots[i].st = "pending"]_vars

\* the request for a record that has an external id failed, nothing is cached
\* for it, and another resolve call for the same record has its own request
\* outstanding
C6_Witness ==
    \E c, d \in CallIds : \E i \in 1..Len(calls[c].slots), j \in 1..Len(calls[d].slots) :
        /\ c # d
        /\ calls[c].pc = "done"
        /\ calls[c].slots[i].rec.id # 0
        /\ Resolvable(calls[c].slots[i].rec.id)
        /\ calls[c].slots[i].val = <<>>
        /\ ImdbKey(calls[c].format, calls[c].slots[i].rec.id) \notin DOMAIN imdbCache
        /\ calls[d].pc = "resolving"
        /\ calls[d].now >= calls[c].now
        /\ calls[d].slots[j].rec = calls[c].slots[i].rec
        /\ calls[d].slots[j].st = "pending"

\* C7: a resolve call that misses the identifier cache sends exactly one
\* request; the outcome of an answered request, an external id or none, is in
\* the cache from then on; a resolve call that starts after an outcome was
\* written is settled with the cached outcome and sends no request
C7_ResolveOutcomeCached ==
    [][/\ \A c \in CallIds :
            (calls[c].pc = "listing" /\ calls'[c].pc \in {"resolving", "done"}
                /\ calls'[c].outcome # "threw")
            => /\ calls'[c].idReqs =
                    Cardinality(Unresolved(calls'[c].format, calls'[c].slots, imdbCache))
               /\ \A i \in 1..Len(calls'[c].slots) :
                    LET slot == calls'[c].slots[i]
                        key == ImdbKey(calls'[c].format, slot.rec.id)
                    IN  (slot.rec.id # 0 /\ key \in DOMAIN hist.idWritten)
                        => /\ slot.st = "settled"
                           /\ (slot.val = <<>>) = (hist.idWritten[key] = NULL)
                           /\ slot.val # <<>> => slot.val[1].id = hist.idWritten[key]
       /\ \A c \in CallIds :
            (calls[c].pc = "resolving" /\ calls'[c].pc # "idle")
            => calls'[c].idReqs = calls[c].idReqs
       /\ \A key \in DOMAIN hist'.idWritten :
            /\ key \in DOMAIN imdbCache'
            /\ imdbCache'[key] = hist'.idWritten[key]]_vars

\* a page with a record that has an external id and a record that has none
\* was formatted from the identifier cache alone
C7_Witness ==
    \E c \in CallIds :
        /\ Returned(c) /\ ~calls[c].hit
        /\ calls[c].idReqs = 0
        /\ \E i, j \in 1..Len(calls[c].slots) :
            /\ calls[c].slots[i].rec.id = 1
            /\ calls[c].slots[j].rec.id = 2
            /\ imdbCache[ImdbKey(calls[c].format, 2)] = NULL
        /\ Len(MetasOf(c)) = 1

\* a catalogue response: a mapping with the single field metas, a sequence of
\* metas
WellFormed(resp) ==
    /\ resp.state = "resolved"
    /\ DOMAIN resp.value = {"metas"}
    /\ \A i \in 1..Len(resp.value.metas) :
        /\ DOMAIN resp.value.metas[i] =
            {"id", "imdb_id", "type", "name", "poster", "background", "logo",
             "description", "releaseInfo", "imdbRating", "year", "genres"}
        /\ resp.value.metas[i].type \in {"movie", "series"}

\* C8: the handler's promise always resolves with a well-formed catalogue
\* response; a failed listing request makes the fetch operation throw, and
\* whenever the fetch operation threw the response carries an empty list
C8_HandlerNeverRejects ==
    [][/\ \A c \in CallIds : calls'[c].pc = "done" =>
            /\ WellFormed(calls'[c].response)
            /\ calls'[c].outcome = "threw" => calls'[c].response.value.metas = <<>>
       /\ \A c \in CallIds :
            (\E why \in Failures : ListingError(c, why))
            => /\ calls'[c].pc = "done"
               /\ calls'[c].outcome = "threw"
               /\ calls'[c].response = Resolved([metas |-> <<>>])]_vars

\* the listing request of a call failed and the call answered { metas: [] }
C8_Witness ==
    \E c \in CallIds :
        /\ calls[c].pc = "done"
        /\ calls[c].outcome = "threw"
        /\ calls[c].listReqs = 1
        /\ calls[c].response = Resolved([metas |-> <<>>])

\* the registry has no entry for the id of the request
NotInRegistry(id) == CatalogId(id) \notin DOMAIN CATALOGS

\* C9 as stated: the response to an id that is not in the registry is the
\* mapping { results: [] }
C9_ResultsField ==
    \A c \in CallIds : (calls[c].pc = "done" /\ NotInRegistry(calls[c].id)) =>
        calls[c].response.value = [results |-> <<>>]

\* C9, amended: the response to an id that is not in the registry is the
\* mapping { metas: [] }; the handler does not reject, sends no upstream
\* request and leaves both caches as they were
C9_UnknownCatalogue ==
    [][\A c \in CallIds, req \in Requests :
        (HandlerStart(c, req) /\ NotInRegistry(req.id))
        => /\ calls'[c].pc = "done"
           /\ calls'[c].response = Resolved([metas |-> <<>>])
           /\ calls'[c].listReqs = 0
           /\ calls'[c].idReqs = 0
           /\ cache' = cache
           /\ imdbCache' = imdbCache]_vars

\* an unknown id was answered while the caches were holding entries
C9_Witness ==
    \E c \in CallIds :
        /\ calls[c].pc = "done"
        /\ calls[c].id = <<Prefix, "unknown">>
        /\ calls[c].response.state = "resolved"
        /\ DOMAIN cache # {}
        /\ DOMAIN imdbCache # {}

\* a skip string that is the decimal numeral of a non-negative integer
IsNumeral(str) ==
    /\ str # <<>>
    /\ \A i \in 1..Len(str) :
        str[i] \in {"0", "1", "2", "3", "4", "5", "6", "7", "8", "9"}

\* a skip string without any digit
NonNumeric(str) ==
    \A i \in 1..Len(str) :
        str[i] \notin {"0", "1", "2", "3", "4", "5", "6", "7", "8", "9"}

\* the integer a numeral denotes
RECURSIVE NumeralValue(_)
NumeralValue(str) ==
    IF str = <<>> THEN 0
    ELSE 10 * NumeralValue(SubSeq(str, 1, Len(str) - 1))
            + (CHOOSE d \in 0..9 :
                 <<"0", "1", "2", "3", "4", "5", "6", "7", "8", "9">>[d + 1]
                    = str[Len(str)])

IsResolvedSubsequence(kind, metas, slots) ==
    \E f \in [1..Len(metas) -> 1..Len(slots)] :
        /\ \A i, j \in 1..Len(metas) : i < j => f[i] < f[j]
        /\ \A i \in 1..Len(metas) :
            /\ slots[f[i]].val # <<>>
            /\ metas[i].id = ImdbOf(kind, slots[f[i]].rec.id)
            /\ metas[i].name = slots[f[i]].rec.title
        /\ \A j \in 1..Len(slots) :
            slots[j].val # <<>> => \E i \in 1..Len(metas) : f[i] = j

\* C11: the identifier requests of all the records of a page are outstanding
\* together once the listing request is answered, and whatever the order of
\* their answers the returned list is the subsequence of the page made of the
\* records that resolved, in page order
C11_PageOrderKept ==
    [][\A c \in CallIds :
        /\ (calls[c].pc = "listing" /\ calls'[c].pc = "resolving")
            => /\ NumPending(calls'[c].slots) = calls'[c].idReqs
               /\ \A i \in Unresolved(calls'[c].format, calls'[c].slots, imdbCache) :
                    calls'[c].slots[i].st = "pending"
        /\ (calls[c].pc \in {"listing", "resolving"} /\ Returned(c)')
            => /\ IsResolvedSubsequence(calls'[c].format, MetasOf(c)',
                                         calls'[c].slots)
               /\ \A i, j \in 1..Len(calls'[c].slots) :
                    (i < j /\ calls'[c].slots[i].val # <<>>
                           /\ calls'[c].slots[j].val # <<>>
                           /\ calls'[c].slots[i].rec # calls'[c].slots[j].rec)
                    => \E a, b \in 1..Len(MetasOf(c)') :
                        /\ a < b
                        /\ MetasOf(c)'[a] = calls'[c].slots[i].val[1]
                        /\ MetasOf(c)'[b] = calls'[c].slots[j].val[1]
                        /\ MetasOf(c)'[a].name = calls'[c].slots[i].rec.title
                        /\ MetasOf(c)'[b].name = calls'[c].slots[j].rec.title]_vars

\* a page of three records: the request of the last record was answered
\* first, that of the first record last, the second record was dropped, and
\* the list has the first record before the last
C11_Witness ==
    \E c \in CallIds :
        /\ Returned(c) /\ ~calls[c].hit
        /\ Len(calls[c].slots) = 3
        /\ calls[c].slots[1].rec.id = 1 /\ calls[c].slots[1].seq = 3
        /\ calls[c].slots[2].rec.id = 2 /\ calls[c].slots[2].seq = 2
        /\ calls[c].slots[3].rec.id = 3 /\ calls[c].slots[3].seq = 1
        /\ Len(MetasOf(c)) = 2
        /\ MetasOf(c)[1].name = "One" /\ MetasOf(c)[2].name = "Three"

\* C12: a call that starts while another call for the same key is computing,
\* and finds no fresh entry, sends its own listing request and leaves the
\* other call as it is; every computation that returns has sent one
C12_NoInFlightDedupe ==
    [][/\ \A c, d \in CallIds :
            (/\ c # d
             /\ Invoked(c)
             /\ Dispatched(c)'
             /\ calls[d].pc \in {"listing", "resolving"}
             /\ calls[d].key = calls'[c].key
             /\ ~FreshIn(cache, calls'[c].key, clock))
            => /\ calls'[c].pc = "listing"
               /\ calls'[c].listReqs = 1
               /\ calls'[d] = calls[d]
               /\ calls'[d].listReqs = 1
       /\ \A c \in CallIds :
            (Returned(c)' /\ ~calls'[c].hit) => calls'[c].listReqs = 1]_vars

\* two calls for the same key have each an answered listing request and
\* identifier requests of their own outstanding
C12_Witness ==
    \E c, d \in CallIds :
        /\ c # d
        /\ calls[c].key = calls[d].key
        /\ calls[c].pc = "resolving" /\ calls[d].pc = "resolving"
        /\ calls[c].listReqs = 1 /\ calls[d].listReqs = 1
        /\ NumPending(calls[c].slots) > 0 /\ NumPending(calls[d].slots) > 0

\* the identifier cache key the source writes for a record of a kind
OwnKey(kind, n) == <<IF kind = "movie" THEN "movie_" ELSE "series_", n>>

\* C13: a resolve call for a record of a kind looks up and writes only the
\* entry of that kind: it is settled without a request exactly when the
\* entry of its own kind exists, whatever the cache holds for the other kind;
\* an answer changes no other entry; a returned meta carries the external id
\* of its own kind
C13_KindsHaveOwnNamespace ==
    [][\A c \in CallIds :
        /\ \A n \in RecordIds : OwnKey("movie", n) # OwnKey("series", n)
        /\ (calls[c].pc = "listing" /\ calls'[c].pc \in {"resolving", "done"}
                /\ calls'[c].outcome # "threw")
            => \A i \in 1..Len(calls'[c].slots) :
                LET slot == calls'[c].slots[i] IN
                slot.rec.id # 0 =>
                    /\ (slot.st = "pending")
                        = (OwnKey(calls'[c].format, slot.rec.id) \notin DOMAIN imdbCache)
                    /\ (slot.st = "settled" /\ slot.val # <<>>)
                        => slot.val[1].id = imdbCache[OwnKey(calls'[c].format, slot.rec.id)]
        /\ \A i \in 1..Len(calls[c].slots) :
            (calls[c].pc = "resolving" /\ calls[c].slots[i].st = "pending"
                /\ calls'[c].slots[i].st = "settled")
            => LET own == OwnKey(calls[c].format, calls[c].slots[i].rec.id) IN
               /\ DOMAIN imdbCache' \subseteq DOMAIN imdbCache \cup {own}
               /\ \A k \in DOMAIN imdbCache : k # own => imdbCache'[k] = imdbCache[k]
        /\ Returned(c)' =>
            \A i \in 1..Len(MetasOf(c)') :
                \E n \in RecordIds :
                    MetasOf(c)'[i].id = ImdbOf(MetasOf(c)'[i].type, n)]_vars

\* a series page listing records 1 and 2 was resolved by two answered
\* requests although the cache held the outcomes of movie 1 and movie 2, and
\* afterwards the cache holds all four entries
C13_Witness ==
    \E c \in CallIds :
        /\ Returned(c) /\ ~calls[c].hit
        /\ calls[c].format = "series"
        /\ Len(calls[c].slots) = 2
        /\ calls[c].slots[1].rec.id = 1 /\ calls[c].slots[1].seq > 0
        /\ calls[c].slots[2].rec.id = 2 /\ calls[c].slots[2].seq > 0
        /\ calls[c].idReqs = 2
        /\ OwnKey("movie", 1) \in DOMAIN imdbCache
        /\ OwnKey("movie", 2) \in DOMAIN imdbCache
        /\ OwnKey("movie", 1) \in DOMAIN hist.idWritten
        /\ imdbCache[OwnKey("movie", 1)] = ImdbOf("movie", 1)
        /\ imdbCache[OwnKey("movie", 2)] = NULL
        /\ imdbCache[OwnKey("series", 1)] = ImdbOf("series", 1)
        /\ MetasOf(c)[1].id = ImdbOf("series", 1)

\* the formatter sweep has produced a meta
Formatted == sweep.done /\ sweep.out # <<>>

\* C14: the year of a formatted record is the first four characters of its
\* date when the date has at least four characters, and is absent when the
\* date is absent or shorter
C14_YearFourCharsOrAbsent ==
    Formatted =>
        LET date == sweep.rec.release_date
            year == sweep.out[1].year
        IN  /\ (date # None /\ Len(date[1]) >= 4)
                => year = Some(SubSeq(date[1], 1, 4))
            /\ (date = None \/ Len(date[1]) < 4) => year = None
            /\ date = Some(Date1989) => year = Some(<<"1", "9", "8", "9">>)

\* the positions of a genre id list whose id is in the genre table
Mapped(ids) == {i \in 1..Len(ids) : ids[i] \in DOMAIN GENRE_MAP}

\* C15: the genres of a formatted record are the names of its genre ids that
\* are in the genre table, in the order of the ids, duplicates kept; ids
\* <<53, 9999>> give <<"Thriller">>, no genre ids give the empty list
C15_GenreNamesInOrder ==
    Formatted =>
        LET g == sweep.rec.genre_ids
            names == sweep.out[1].genres
        IN  /\ g = None => names = << >>
            /\ g = Some(<<53, 9999>>) => names = <<"Thriller">>
            /\ g = Some(<<18, 18>>) => names = <<"Drama", "Drama">>
            /\ g # None =>
                /\ Len(names) = Cardinality(Mapped(g[1]))
                /\ \E f \in [1..Len(names) -> 1..Len(g[1])] :
                    /\ \A i, j \in 1..Len(names) : i < j => f[i] < f[j]
                    /\ \A i \in 1..Len(names) :
                        /\ f[i] \in Mapped(g[1])
                        /\ names[i] = GENRE_MAP[g[1][f[i]]]

\* genre ids 53, 9999, 53 were formatted as Thriller, Thriller
C15_Witness ==
    /\ Formatted
    /\ sweep.rec.genre_ids = Some(<<53, 9999, 53>>)
    /\ sweep.out[1].genres = <<"Thriller", "Thriller">>

\* C16: the query of every request has api_key and language; a caller's
\* parameter with a value is sent with that value, also in place of an
\* injected one; a caller's parameter that is undefined or null is not sent,
\* and an injected parameter it names keeps the injected value
C16_QueryParameters ==
    sweep.built =>
        LET q == sweep.query
            o == sweep.params
            injected == [k \in {"api_key", "language"} |->
                            IF k = "api_key" THEN sweep.apiKey ELSE sweep.language]
        IN  /\ {"api_key", "language"} \subseteq DOMAIN q
            /\ DOMAIN q \subseteq DOMAIN o \cup {"api_key", "language"}
            /\ \A k \in DOMAIN o :
                /\ o[k].t = "string" => (k \in DOMAIN q /\ q[k] = o[k].v)
                /\ (o[k].t \in {"undefined", "null"} /\ k \notin DOMAIN injected)
                    => k \notin DOMAIN q
                /\ (o[k].t \in {"undefined", "null"} /\ k \in DOMAIN injected)
                    => q[k] = injected[k]
            /\ \A k \in DOMAIN injected \ DOMAIN o : q[k] = injected[k]

\* a params object with a null page, an undefined api_key, a genre and a
\* language of its own was sent as the key, the caller's language and the genre
C16_Witness ==
    /\ sweep.built
    /\ DOMAIN sweep.params = {"page", "with_genres", "language", "api_key"}
    /\ sweep.params["page"] = Null
    /\ sweep.params["api_key"] = Undefined
    /\ sweep.params["language"] = Str("en-US")
    /\ sweep.language = "fr-FR"
    /\ DOMAIN sweep.query = {"api_key", "language", "with_genres"}
    /\ sweep.query["api_key"] = "KEY"
    /\ sweep.query["language"] = "en-US"
    /\ sweep.query["with_genres"] = "2"

\* the records of a page for which a request was sent
Asked(slots) ==
    {i \in 1..Len(slots) : slots[i].st = "pending" \/ slots[i].seq > 0}

\* C17: a call never has sent more than one listing request nor more than
\* one identifier request per record of its page; a failed listing request
\* ends the call at once, with an error that carries the status when the
\* status is outside the success range; a failed identifier request is not
\* sent again
C17_NoRetry ==
    [][\A c \in CallIds :
        /\ calls'[c].listReqs <= 1
        /\ calls'[c].idReqs <= Len(calls'[c].slots)
        /\ calls'[c].idReqs = Cardinality(Asked(calls'[c].slots))
        /\ \A why \in Failures : ListingError(c, why) =>
            /\ calls'[c].pc = "done"
            /\ calls'[c].outcome = "threw"
            /\ calls'[c].listReqs = 1
            /\ calls'[c].idReqs = 0
            /\ why.transport \/ why.status \notin 200..299
            /\ ~why.transport =>
                /\ calls'[c].error.status = why.status
                /\ calls'[c].error.message = "TMDB API error: "
        /\ \A i \in PageLens \ {0} : IdError(c, i) =>
            /\ calls'[c].slots[i].st = "settled"
            /\ calls'[c].slots[i].failed
            /\ calls'[c].idReqs = calls[c].idReqs
            /\ calls'[c].listReqs = calls[c].listReqs]_vars

\* a call ended on a listing request answered 500 and the other call, whose
\* page has two records, is left with one failed and one outstanding
\* identifier request
C17_Witness ==
    \E c, d \in CallIds :
        /\ calls[c].pc = "done" /\ calls[c].error.status = 500
        /\ calls[c].listReqs = 1
        /\ calls[d].pc = "resolving"
        /\ calls[d].idReqs = 2
        /\ calls[d].slots[1].failed
        /\ calls[d].slots[2].st = "pending"

\* the records of a page that have an upstream id and an external id and
\* whose identifier request, if any, did not fail
Kept(slots) ==
    {i \in 1..Len(slots) :
        slots[i].rec.id # 0 /\ Resolvable(slots[i].rec.id) /\ ~slots[i].failed}

\* C18: once its listing request has succeeded a fetch operation returns: a
\* failed identifier request settles its record as absent, a computation that
\* ends returns a list of exactly the records that have an upstream id and an
\* external id and whose request did not fail, and the empty list when every
\* identifier request failed
C18_ListingOkAlwaysCompletes ==
    [][\A c \in CallIds :
        /\ (\E page \in Pages : ListingOk(c, page)) =>
            /\ calls'[c].pc \in {"resolving", "done"}
            /\ calls'[c].outcome # "threw"
        /\ \A i \in PageLens \ {0} : IdError(c, i) =>
            /\ calls'[c].slots[i].val = <<>>
            /\ calls'[c].outcome # "threw"
        /\ (calls[c].pc = "resolving" /\ calls'[c].pc # "resolving") =>
            /\ Returned(c)'
            /\ calls'[c].response.state = "resolved"
        /\ (calls[c].pc \in {"listing", "resolving"} /\ Returned(c)') =>
            /\ Len(MetasOf(c)') = Cardinality(Kept(calls'[c].slots))
            /\ \A i \in 1..Len(calls'[c].slots) :
                (i \notin Kept(calls'[c].slots)) = (calls'[c].slots[i].val = <<>>)
            /\ (/\ Asked(calls'[c].slots) = 1..Len(calls'[c].slots)
                /\ \A i \in 1..Len(calls'[c].slots) : calls'[c].slots[i].failed)
                => MetasOf(c)' = <<>>]_vars

\* a page of a record with an external id and a record without one: both
\* identifier requests failed and the operation returned the empty list
C18_Witness ==
    \E c \in CallIds :
        /\ Returned(c) /\ ~calls[c].hit
        /\ Len(calls[c].slots) = 2
        /\ calls[c].slots[1].rec.id = 1 /\ calls[c].slots[1].failed
        /\ calls[c].slots[2].rec.id = 2 /\ calls[c].slots[2].failed
        /\ MetasOf(c) = <<>>
        /\ calls[c].response = Resolved([metas |-> <<>>])

\* no identifier request of the page is outstanding
NoneOutstanding(slots) == \A i \in 1..Len(slots) : slots[i].st # "pending"

\* C19: a call with an outstanding identifier request has not returned; the
\* step that writes a cache entry is the return of a computation for that key
\* whose identifier requests have all been answered, and it writes the list
\* the computation returns
C19_ReturnsAfterAllSettled ==
    [][/\ \A c \in CallIds :
            ~NoneOutstanding(calls'[c].slots) =>
                /\ calls'[c].pc = "resolving"
                /\ calls'[c].outcome = "none"
                /\ calls'[c].response = NoResponse
       /\ \A k \in DOMAIN cache' :
            (k \notin DOMAIN cache \/ cache'[k] # cache[k]) =>
                \E c \in CallIds :
                    /\ calls[c].pc \in {"listing", "resolving"}
                    /\ calls[c].key = k
                    /\ Returned(c)'
                    /\ NoneOutstanding(calls'[c].slots)
                    /\ cache'[k].data = MetasOf(c)'
                    /\ Len(cache'[k].data)
                        = Cardinality({i \in 1..Len(calls'[c].slots) :
                                        calls'[c].slots[i].val # <<>>})]_vars

\* a computation whose page needed two identifier requests has returned and
\* the cache holds its list, while the other call still waits for its own
C19_Witness ==
    \E c, d \in CallIds :
        /\ Returned(c) /\ ~calls[c].hit
        /\ Cardinality(Asked(calls[c].slots)) = 2
        /\ MetasOf(c) # <<>>
        /\ cache[calls[c].key].data = MetasOf(c)
        /\ calls[d].pc = "resolving"
        /\ calls[d].key = calls[c].key
        /\ ~NoneOutstanding(calls[d].slots)

\* C20: no step removes a key from the response cache or from the identifier
\* cache; a response cache entry changes only in the step in which a
\* computation for its key returns
C20_CachesOnlyGrow ==
    [][/\ DOMAIN cache \subseteq DOMAIN cache'
       /\ DOMAIN imdbCache \subseteq DOMAIN imdbCache'
       /\ \A k \in DOMAIN cache :
            cache'[k] # cache[k] =>
                \E c \in CallIds :
                    /\ calls[c].pc \in {"listing", "resolving"}
                    /\ calls[c].key = k
                    /\ Returned(c)' /\ ~calls'[c].hit
                    /\ cache'[k].timestamp = calls[c].now
       /\ \A c \in CallIds :
            (Invoked(c) /\ calls'[c].stale) =>
                /\ calls'[c].key \in DOMAIN cache'
                /\ cache' = cache]_vars

\* a call that found an entry of the full TTL age failed, and the entry and
\* the identifier cache entries are still there
C20_Witness ==
    \E c \in CallIds :
        /\ calls[c].pc = "done" /\ calls[c].outcome = "threw"
        /\ calls[c].key \in DOMAIN cache
        /\ clock - cache[calls[c].key].timestamp >= CACHE_TTL
        /\ cache[calls[c].key].data # <<>>
        /\ DOMAIN imdbCache = {ImdbKey("movie", 1), ImdbKey("movie", 2)}

\* C21: a details operation returns null when the detail record cannot be
\* formatted, and otherwise a meta whose genres are the names of the record's
\* genres and whose runtime, cast and imdb_id are those of the record
C21_DetailsEnriched ==
    sweep.returned =>
        LET data == sweep.data
            formattable == data.id # 0 /\ Truthy(sweep.imdbId)
        IN  /\ ~formattable => sweep.out = << >>
            /\ formattable =>
                /\ sweep.out # << >>
                /\ sweep.out[1].genres = DetailGenreNames(data)
                /\ "runtime" \in DOMAIN sweep.out[1]
                /\ sweep.out[1].runtime = DetailRuntime(sweep.kind, data)
                /\ "cast" \in DOMAIN sweep.out[1]
                /\ sweep.out[1].cast = DetailCast(data)
                /\ sweep.out[1].imdb_id = data.external_imdb_id

\* C22: a call that has not returned is waiting for an upstream answer, its
\* listing request or an identifier request; and when the upstream answers
\* every request, every call returns a response
C22_EveryRequestReturns ==
    /\ [](\A c \in CallIds :
            /\ calls[c].pc = "listing" => calls[c].listReqs = 1
            /\ calls[c].pc = "resolving" => NumPending(calls[c].slots) > 0)
    /\ \A c \in CallIds :
            (calls[c].pc \in {"listing", "resolving"})
                ~> (calls[c].pc = "done" /\ calls[c].response.state = "resolved")

\* a call that needed a listing request and two identifier requests has
\* returned while the other call still waits for its listing answer
C22_Witness ==
    \E c, d \in CallIds :
        /\ calls[c].pc = "done" /\ calls[c].response.state = "resolved"
        /\ calls[c].listReqs = 1 /\ calls[c].idReqs = 2
        /\ calls[d].pc = "listing" /\ calls[d].response.state = "pending"

\* C23: a write to the response cache never moves an entry backwards: the
\* timestamp of a key, which is the start time of the computation whose data
\* the entry holds, never decreases
C23_WriteNeverMovesBackwards ==
    [][\A k \in DOMAIN cache :
          /\ k \in DOMAIN cache'
          /\ cache'[k].timestamp >= cache[k].timestamp]_vars

\* C24: while page 1 lists the same two records with an external id, a call
\* none of whose own identifier requests failed returns both of them, whatever
\* failed in the calls before it
C24_FailureNotRemembered ==
    \A c \in CallIds :
        (/\ Returned(c)
         /\ \A i \in 1..Len(calls[c].slots) : ~calls[c].slots[i].failed) =>
            \A j \in DOMAIN SteadyIds :
                \E i \in 1..Len(MetasOf(c)) :
                    MetasOf(c)[i].id = ImdbOf("movie", SteadyIds[j])

\* C25: whatever the skip string, the page handed to the fetch function is an
\* integer greater than or equal to 1
C25_PageAtLeastOne ==
    sweep.parsed => (sweep.page \in Int /\ sweep.page >= 1)

\* C26: every meta of a response has the type of the request, and the type
\* the manifest declares for the requested catalogue
C26_MetasOfRequestedType ==
    \A c \in CallIds :
        calls[c].pc = "done" =>
            \A i \in 1..Len(MetasOf(c)) :
                /\ MetasOf(c)[i].type = calls[c].type
                /\ \A m \in ManifestCatalogs :
                        m.id = calls[c].id => MetasOf(c)[i].type = m.type

\* C28: a fetch function is invoked exactly for the ids of the manifest: an
\* advertised id reaches the operation of its registry entry, and a request
\* with any other id sends no upstream request
C28_OnlyAdvertisedIdsDispatch ==
    \A c \in CallIds :
        calls[c].pc # "idle" =>
            /\ \A k \in DOMAIN CATALOGS :
                    calls[c].id = <<Prefix, k>> =>
                        calls[c].key =
                            CacheKey(CATALOGS[k].method, CATALOGS[k].arg,
                                     calls[c].page)
            /\ ~Advertised(calls[c].id) =>
                    /\ ~Dispatched(c)
                    /\ calls[c].listReqs = 0 /\ calls[c].idReqs = 0

\* C27: the list a fetch operation of an instance returns was computed by
\* upstream requests that carried the api key and the language of that
\* instance, so its titles are in the language of the instance
C27_InstancesIsolated ==
    \A i \in InstanceIds :
        LET me == sweep.inst[i] IN
        me.pc = "done" =>
            /\ \A q \in me.from :
                    /\ q["api_key"] = me.self.apiKey
                    /\ q["language"] = me.self.language
            /\ \A j \in 1..Len(me.out) :
                    me.out[j].name = TitleIn(me.self.language)

====
